---- MODULE Spec2Model ----
(***************************************************************************)
(* A model of LunarCalendar.py: the conversion engine between the          *)
(* Gregorian (solar) calendar and the lunisolar calendar.                  *)
(*                                                                         *)
(* Python values are modelled as follows.                                  *)
(*   - a dict is a TLA+ record (string keys) or function (other keys);     *)
(*   - a str is a sequence of tokens; the Chinese characters of the source *)
(*     tables are written in pinyin ("閏" is "run", "月" is "yue");         *)
(*   - a list is a sequence; Python index i is TLA+ index i + 1, and a     *)
(*     negative Python index counts from the end (PyIndex);                *)
(*   - a call that raises returns the record [raised |-> <exception>].     *)
(***************************************************************************)
EXTENDS Integers, Sequences, FiniteSets, TLC

VARIABLES
  table,   \* which lunarInfo table the class was loaded with
  cache,   \* self.__cache: solar year -> that year's term dict
  call,    \* the most recent call on the engine: its arguments and its result
  seen     \* history: the years of the solarToLunar calls that were not OutOfRange

vars == <<table, cache, call, seen>>

-----------------------------------------------------------------------------
(* Program constants.                                                      *)

minYear == 1890
maxYear == 2100

heavenlyStems == <<"jia", "yi", "bing", "ding", "wu", "ji", "geng", "xin", "ren", "gui">>
earthlyBranches == <<"zi", "chou", "yin", "mao", "chen", "si",
                     "wu", "wei", "shen", "you", "xu", "hai">>
zodiac == <<"shu", "niu", "hu", "tu", "long", "she",
            "ma", "yang", "hou", "ji", "gou", "zhu">>
solarTerm == <<"xiaohan", "dahan", "lichun", "yushui", "jingzhe", "chunfen",
               "qingming", "guyu", "lixia", "xiaoman", "mangzhong", "xiazhi",
               "xiaoshu", "dashu", "liqiu", "chushu", "bailu", "qiufen",
               "hanlu", "shuangjiang", "lidong", "xiaoxue", "daxue", "dongzhi">>
monthCn == <<"zheng", "er", "san", "si", "wu", "liu",
             "qi", "ba", "jiu", "shi", "shiyi", "shier">>
dateCn == <<"chuyi", "chuer", "chusan", "chusi", "chuwu", "chuliu",
            "chuqi", "chuba", "chujiu", "chushi", "shiyi", "shier",
            "shisan", "shisi", "shiwu", "shiliu", "shiqi", "shiba",
            "shijiu", "ershi", "nianyi", "nianer", "niansan", "niansi",
            "nianwu", "nianliu", "nianqi", "nianba", "nianjiu", "sanshi", "sayi">>
termInfo == <<0, 21208, 42467, 63836, 85337, 107014, 128867, 150921,
              173149, 195551, 218072, 240693, 263343, 285989, 308563,
              331033, 353350, 375494, 397447, 419210, 440795, 462224,
              483532, 504758>>

\* The error value of __formatDate.
OutOfRange == [error |-> 100, msg |-> "Year out of range"]

\* Python's None.
None == "None"

-----------------------------------------------------------------------------
(* Python list indexing and str().                                         *)

\* Op(v), with v evaluated once: a local variable of the source holding v.
Let(v, Op(_)) == CHOOSE r \in {Op(x) : x \in {v}} : TRUE

\* The TLA+ index of Python index i in a list of length n (0 when IndexError).
PyIndex(i, n) ==
  IF 0 <= i /\ i < n THEN i + 1
  ELSE IF -n <= i /\ i < 0 THEN n + i + 1
  ELSE 0

Digits == <<"0", "1", "2", "3", "4", "5", "6", "7", "8", "9">>

\* str(n) for 0 <= n <= 99, as a sequence of characters.
Str(n) == IF n < 10 THEN <<Digits[n + 1]>> ELSE <<Digits[(n \div 10) + 1], Digits[(n % 10) + 1]>>

\* int(c) for a one-character string c.
IntOfChar(c) == (CHOOSE i \in 1..10 : Digits[i] = c) - 1

formatDayD4(month, day) ==
  LET month1 == month + 1
      monthS == IF month1 < 10 THEN <<"0">> \o Str(month1) ELSE Str(month1)
      dayS   == IF day < 10 THEN <<"0">> \o Str(day) ELSE Str(day)
  IN <<"d">> \o monthS \o dayS

-----------------------------------------------------------------------------
(* The proleptic Gregorian calendar of datetime.date.                      *)

isLeapYear(year) == (year % 4 = 0 /\ year % 100 # 0) \/ year % 400 = 0

\* month is 0-indexed.
getSolarMonthDays(year, month) ==
  <<31, IF isLeapYear(year) THEN 29 ELSE 28, 31, 30, 31, 30, 31, 31, 30, 31, 30, 31>>[month + 1]

\* datetime.date(year, month, day) raises ValueError unless this holds; month is 1-indexed.
ValidDate(year, month, day) ==
  /\ month \in 1..12
  /\ day >= 1
  /\ day <= getSolarMonthDays(year, month - 1)

DaysBeforeYear(year) ==
  LET y == year - 1 IN y * 365 + (y \div 4) - (y \div 100) + (y \div 400)

\* The days of the year before the first of month (1-indexed).
DaysBeforeMonth(year, month) ==
  <<0, 31, 59, 90, 120, 151, 181, 212, 243, 273, 304, 334>>[month]
  + (IF month > 2 /\ isLeapYear(year) THEN 1 ELSE 0)

\* date.toordinal(): day 1 is 0001-01-01. month is 1-indexed.
ToOrdinal(year, month, day) == DaysBeforeYear(year) + DaysBeforeMonth(year, month) + day

\* date.fromordinal(n), as <<year, month (1-indexed), day>>.
FromOrdinal(ord) ==
  LET n0   == ord - 1
      n400 == n0 \div 146097
      r400 == n0 % 146097
      n100 == r400 \div 36524
      r100 == r400 % 36524
      n4   == r100 \div 1461
      r4   == r100 % 1461
      n1   == r4 \div 365
      n    == r4 % 365
      year == n400 * 400 + 1 + n100 * 100 + n4 * 4 + n1
  IN IF n1 = 4 \/ n100 = 4 THEN <<year - 1, 12, 31>>
     ELSE LET est   == (n + 50) \div 32
              month == IF DaysBeforeMonth(year, est) > n THEN est - 1 ELSE est
          IN <<year, month, n - DaysBeforeMonth(year, month) + 1>>

-------------------------------------------------------------------------------------------------------------------------------------------------
(* The lunar table, lunarInfo.csv: one row per year minYear..maxYear,      *)
(* <<leap month (0 = none), solar month of lunar new year, its solar day,  *)
(* month-length bits>>.  The file is not part of the sources.  The tables  *)
(* below follow the documented row format and are chained: each year's new *)
(* year is the previous new year plus the previous lunar year's length.    *)
(* New year falls between January 21 and February 19; from one year to the *)
(* next it moves 11 days back (a year of 12 months) or 19 days on (a year  *)
(* of 13 months).                                                          *)

\* Init chooses among the tables 0..MaxTable.
MaxTable == 1

\* 1 << n, for n in 0..16.
Pow2(n) == <<1, 2, 4, 8, 16, 32, 64, 128, 256, 512, 1024, 2048, 4096, 8192,
             16384, 32768, 65536>>[n + 1]

\* The ordinal of the lunar new year of year index k in table s.
GenEpoch(k, s) == ToOrdinal(minYear + k, 1, 1) + 20 + ((19 * k + s) % 30)

\* Bits 15.. of a year of n months of which nb have 30 days.
RECURSIVE GenBits(_, _, _, _)
GenBits(i, n, nb, shift) ==
  IF i >= n THEN 0
  ELSE (IF ((i * 7 + shift) % n) < nb THEN Pow2(15 - i) ELSE 0) + GenBits(i + 1, n, nb, shift)

GenRow(k, s) ==
  LET ep     == GenEpoch(k, s)
      length == GenEpoch(k + 1, s) - ep
      n      == IF length > 380 THEN 13 ELSE 12
      date   == FromOrdinal(ep)
  IN <<IF n = 13 THEN 1 + ((k * 5 + s) % 12) ELSE 0,
       date[2], date[3],
       GenBits(0, n, length - 29 * n, k + s)>>

\* The number of rows of the file.
NumRows == maxYear - minYear + 1

\* __lunarInfo, the class attribute read from the file.
lunarInfo == [i \in 1..NumRows |-> GenRow(i - 1, table)]

\* self.__lunarInfo[year - self.__minYear]; <<>> stands for IndexError.
yearDataOf(year) ==
  LET i == PyIndex(year - minYear, NumRows)
  IN IF i = 0 THEN <<>> ELSE lunarInfo[i]

-----------------------------------------------------------------------------
(* LunarYearTable.                                                         *)

getLunarLeapYear(year) == yearDataOf(year)[1]

\* monthDataArr: the 16 bits of monthData, bit 15 first.
monthDataArr(monthData) == [j \in 1..16 |-> (monthData \div Pow2(16 - j)) % 2]

RECURSIVE SumSeq(_, _)
SumSeq(s, n) == IF n = 0 THEN 0 ELSE SumSeq(s, n - 1) + s[n]

\* decodeYearData reading the bits from bit 0 up.
decodeYearDataMutLsb(yearData) ==
  LET leapMonth       == yearData[1]
      monthData       == yearData[4]
      numMonthsInYear == IF leapMonth # 0 THEN 13 ELSE 12
  IN Let(SubSeq([i \in 1..16 |-> IF (monthData \div Pow2(i - 1)) % 2 = 0 THEN 29 ELSE 30],
                1, numMonthsInYear),
         LAMBDA monthDays :
           [yearDays |-> SumSeq(monthDays, numMonthsInYear), monthDays |-> monthDays])

\* The body of __getLunarYearDays for one row.
decodeYearData(yearData) ==
  LET leapMonth       == yearData[1]
      monthData       == yearData[4]
      arr             == monthDataArr(monthData)
      numMonthsInYear == IF leapMonth # 0 THEN 13 ELSE 12
  IN Let(SubSeq([i \in 1..16 |-> IF arr[i] = 0 THEN 29 ELSE 30], 1, numMonthsInYear),
         LAMBDA monthDays :
           [yearDays |-> SumSeq(monthDays, numMonthsInYear), monthDays |-> monthDays])

getLunarYearDays(year) == Let(yearDataOf(year), LAMBDA yearData : decodeYearData(yearData))

-----------------------------------------------------------------------------
(* DayCounter.                                                             *)

\* The first i (0-indexed) at or after position i with tempDays > end, as
\* <<found, i, tempDays after adding monthDays[i]>>; the for loop of
\* __getLunarDateByBetween.
RECURSIVE FindMonth(_, _, _, _)
FindMonth(monthDays, end, i, tempDays) ==
  IF i >= Len(monthDays) THEN <<FALSE, 0, tempDays>>
  ELSE LET t == tempDays + monthDays[i + 1]
       IN IF t > end THEN <<TRUE, i, t - monthDays[i + 1]>>
          ELSE FindMonth(monthDays, end, i + 1, t)

\* getLunarDateByBetween without the normalisation of the offset.
getLunarDateByBetweenMutNoNorm(year, between) ==
  Let(getLunarYearDays(year), LAMBDA lunarYearDays :
    Let(FindMonth(lunarYearDays.monthDays, between, 0, 0), LAMBDA found :
      <<year, found[2], between - found[3] + 1>>))

getLunarDateByBetween(year, between) ==
  Let(getLunarYearDays(year), LAMBDA lunarYearDays :
    LET end == IF between > 0 THEN between ELSE lunarYearDays.yearDays + between
    IN Let(FindMonth(lunarYearDays.monthDays, end, 0, 0), LAMBDA found :
         <<year, found[2], end - found[3] + 1>>))

\* Months are 0-indexed; the caller has checked both dates with ValidDate.
getDaysBetweenSolar(year, month, day, year1, month1, day1) ==
  ToOrdinal(year1, month1 + 1, day1) - ToOrdinal(year, month + 1, day)

\* <<lunar year, month (0-indexed), day>>, or <<>> when datetime.date rejects
\* a date (ValueError).
getLunarByBetween(year, month, day) ==
  Let(yearDataOf(year), LAMBDA yearData :
    LET zenMonth == yearData[2]
        zenDay   == yearData[3]
    IN IF ~ValidDate(year, zenMonth, zenDay) \/ ~ValidDate(year, month + 1, day)
       THEN <<>>
       ELSE Let(getDaysBetweenSolar(year, zenMonth - 1, zenDay, year, month, day),
                LAMBDA between :
                  IF between = 0 THEN <<year, 0, 1>>
                  ELSE getLunarDateByBetween(IF between > 0 THEN year ELSE year - 1,
                                             between)))

RECURSIVE SumBefore(_, _, _)
SumBefore(monthDays, month, i) ==
  IF i >= Len(monthDays) \/ ~(i < month) THEN 0
  ELSE monthDays[i + 1] + SumBefore(monthDays, month, i + 1)

getDaysBetweenZheng(year, month, day) ==
  Let(getLunarYearDays(year).monthDays, LAMBDA monthDays :
    SumBefore(monthDays, month, 0) + day - 1)

-----------------------------------------------------------------------------
(* SolarTermCalculator.                                                    *)

\* The day of month of the n-th solar term of year y.  The source adds
\* 31556925974.7 * (y - 1890) + termInfo[n] * 60000 milliseconds to
\* 1890-01-05 16:02:31 UTC.  One period is 365 days, 20925 seconds and 9747
\* ten-thousandths of a second; the sum is kept in days and whole seconds.
getTerm(y, n) ==
  LET k    == y - 1890
      secs == 16 * 3600 + 2 * 60 + 31 + 20925 * k + ((9747 * k) \div 10000)
              + termInfo[n + 1] * 60
      days == 365 * k + (secs \div 86400)
  IN FromOrdinal(ToOrdinal(1890, 1, 5) + days)[3]

RECURSIVE yearTermLoop(_, _, _)
yearTermLoop(year, i, res) ==
  IF i >= 24 THEN res
  ELSE yearTermLoop(year, i + 1,
         IF i % 2 = 0
         THEN (formatDayD4(i \div 2, getTerm(year, i)) :> solarTerm[i + 1]) @@ res
         ELSE res)

\* The dict of one year: key 'dMMDD' -> term name, for the even-indexed terms.
getYearTerm(year) == yearTermLoop(year, 0, <<>>)

-----------------------------------------------------------------------------
(* SexagenaryNamer.                                                        *)

getYearZodiac(year) == zodiac[((year - 1890 + 25) % 12) + 1]

cyclical(num) == <<heavenlyStems[(num % 10) + 1], earthlyBranches[(num % 12) + 1]>>

getLunarYearName(year, offset) == cyclical(year - 1890 + 25 + offset)

getLunarMonthName(year, month, offset) == cyclical((year - 1890) * 12 + month + 12 + offset)

\* month is 0-indexed; the date is valid.
getLunarDayName(year, month, day) ==
  cyclical(ToOrdinal(year, month + 1, day) + 29219 + 18 - ToOrdinal(1970, 1, 1))

-----------------------------------------------------------------------------
(* DateConverter.                                                          *)

\* formatDate returning the error inside the date it was given.
formatDateMutPartial(year, month, day, _minYear) ==
  IF year < (IF _minYear # <<>> THEN _minYear[1] ELSE minYear + 1) \/ year > maxYear
  THEN [error |-> 100, msg |-> "Year out of range",
        year |-> year, month |-> month - 1, day |-> day]
  ELSE [year |-> year, month |-> month - 1, day |-> day]

\* _minYear is <<>> for None and <<n>> for n.  year, month and day are given.
formatDate(year, month, day, _minYear) ==
  IF year < (IF _minYear # <<>> THEN _minYear[1] ELSE minYear + 1) \/ year > maxYear
  THEN OutOfRange
  ELSE [year |-> year, month |-> month - 1, day |-> day]

IsError(r) == "error" \in DOMAIN r

\* The value lunarToSolar returns.
lunarToSolarResult(_year, _month, _day) ==
  LET inputDate == formatDate(_year, _month, _day, <<>>)
  IN IF IsError(inputDate) THEN inputDate
     ELSE LET year     == inputDate.year
              month    == inputDate.month
              day      == inputDate.day
              between  == getDaysBetweenZheng(year, month, day)
          IN Let(yearDataOf(year), LAMBDA yearData :
               LET zenMonth == yearData[2]
                   zenDay   == yearData[3]
               IN IF ~ValidDate(year, zenMonth, zenDay) THEN [raised |-> "ValueError"]
                  ELSE Let(FromOrdinal(ToOrdinal(year, zenMonth, zenDay) + between),
                           LAMBDA offDate :
                             [year |-> offDate[1], month |-> offDate[2], day |-> offDate[3]]))

\* termList after lines 339-343: the cached dict, or a new one.
termListOf(c, year) == IF year \in DOMAIN c THEN c[year] ELSE getYearTerm(year)

\* solarToLunarCache keeping only the year just computed.
solarToLunarCacheMutReplace(c, _year, _month, _day) ==
  LET inputDate == formatDate(_year, _month, _day, <<minYear>>)
  IN IF IsError(inputDate) \/ inputDate.year \in DOMAIN c THEN c
     ELSE (inputDate.year :> getYearTerm(inputDate.year))

\* self.__cache after solarToLunar(_year, _month, _day) on cache c.
solarToLunarCache(c, _year, _month, _day) ==
  LET inputDate == formatDate(_year, _month, _day, <<minYear>>)
  IN IF IsError(inputDate) \/ inputDate.year \in DOMAIN c THEN c
     ELSE (inputDate.year :> getYearTerm(inputDate.year)) @@ c

\* lunarMonthNameOf without the shift by one after the leap month.
lunarMonthNameOfMutNoShift(lunarLeapMonth, lunarMonth) ==
  LET at(i) == PyIndex(i, Len(monthCn))
  IN IF lunarLeapMonth > 0 /\ lunarLeapMonth = lunarMonth
     THEN IF at(lunarMonth - 1) = 0 THEN <<>>
          ELSE <<"run", monthCn[at(lunarMonth - 1)], "yue">>
     ELSE IF at(lunarMonth) = 0 THEN <<>>
          ELSE <<monthCn[at(lunarMonth)], "yue">>

\* lunarMonthName of lines 358-363, or <<>> when the index is out of range
\* (IndexError).  lunarMonth is 0-indexed.
lunarMonthNameOf(lunarLeapMonth, lunarMonth) ==
  LET at(i) == PyIndex(i, Len(monthCn))
  IN IF lunarLeapMonth > 0 /\ lunarLeapMonth = lunarMonth
     THEN IF at(lunarMonth - 1) = 0 THEN <<>>
          ELSE <<"run", monthCn[at(lunarMonth - 1)], "yue">>
     ELSE IF lunarLeapMonth > 0 /\ lunarMonth > lunarLeapMonth
     THEN IF at(lunarMonth - 1) = 0 THEN <<>>
          ELSE <<monthCn[at(lunarMonth - 1)], "yue">>
     ELSE IF at(lunarMonth) = 0 THEN <<>>
          ELSE <<monthCn[at(lunarMonth)], "yue">>

\* ganZhiYearOf with the year changing the day after start of spring.
ganZhiYearOfMutStrict(year, month, day, term2) ==
  IF month > 1 \/ (month = 1 /\ day > term2) THEN year + 1 ELSE year

\* GanZhiYear of lines 349-352; month is 0-indexed.
ganZhiYearOf(year, month, day, term2) ==
  IF month > 1 \/ (month = 1 /\ day >= term2) THEN year + 1 ELSE year

\* Lines 345-381 of solarToLunar, given termList and lunarDate.
solarToLunarInfo(termList, lunarDate, year, month, day) ==
  LET term2key       == CHOOSE k \in DOMAIN termList : termList[k] = "lichun"
      term2          == IntOfChar(term2key[Len(term2key)])
      firstTerm      == getTerm(year, month * 2)
      GanZhiYear     == ganZhiYearOf(year, month, day, term2)
      GanZhiMonth    == IF day >= firstTerm THEN month + 1 ELSE month
      lunarLeapMonth == getLunarLeapYear(lunarDate[1])
      key            == formatDayD4(month, day)
      term           == IF key \in DOMAIN termList THEN termList[key] ELSE None
      dayIdx         == PyIndex(lunarDate[3] - 1, Len(dateCn))
  IN Let(lunarMonthNameOf(lunarLeapMonth, lunarDate[2]), LAMBDA lunarMonthName :
       IF lunarMonthName = <<>> \/ dayIdx = 0
       THEN [raised |-> "IndexError"]
       ELSE [zodiac         |-> getYearZodiac(GanZhiYear),
             GanZhiYear     |-> getLunarYearName(GanZhiYear, 0),
             GanZhiMonth    |-> getLunarMonthName(year, GanZhiMonth, 0),
             GanZhiDay      |-> getLunarDayName(year, month, day),
             term           |-> term,
             lunarYear      |-> lunarDate[1],
             lunarMonth     |-> lunarDate[2] + 1,
             lunarDay       |-> lunarDate[3],
             lunarMonthName |-> lunarMonthName,
             lunarDayName   |-> dateCn[dayIdx],
             lunarLeapMonth |-> lunarLeapMonth])

\* The value solarToLunar returns on cache c.
solarToLunarResult(c, _year, _month, _day) ==
  LET inputDate == formatDate(_year, _month, _day, <<minYear>>)
  IN IF IsError(inputDate) THEN inputDate
     ELSE LET year  == inputDate.year
              month == inputDate.month
              day   == inputDate.day
          IN IF PyIndex(month * 2, Len(termInfo)) = 0 THEN [raised |-> "IndexError"]
             ELSE Let(getLunarByBetween(year, month, day), LAMBDA lunarDate :
                    IF lunarDate = <<>> THEN [raised |-> "ValueError"]
                    ELSE Let(termListOf(c, year), LAMBDA termList :
                           solarToLunarInfo(termList, lunarDate, year, month, day)))

-----------------------------------------------------------------------------
(* The engine: one LunarCalendar instance and the calls made on it.        *)

NoResult == [none |-> TRUE]
NoCall == [op |-> "none", year |-> 0, month |-> 0, day |-> 0, result |-> NoResult]

IsLunarInfo(r) == "lunarYear" \in DOMAIN r
IsSolarInfo(r) == DOMAIN r = {"year", "month", "day"}
IsRaised(r) == "raised" \in DOMAIN r

SolarToLunar(_year, _month, _day) ==
  /\ call' = [op |-> "solarToLunar", year |-> _year, month |-> _month, day |-> _day,
              result |-> solarToLunarResult(cache, _year, _month, _day)]
  /\ cache' = solarToLunarCache(cache, _year, _month, _day)
  /\ seen' = IF IsError(formatDate(_year, _month, _day, <<minYear>>))
             THEN seen ELSE seen \cup {_year}
  /\ UNCHANGED table

LunarToSolar(_year, _month, _day) ==
  /\ call' = [op |-> "lunarToSolar", year |-> _year, month |-> _month, day |-> _day,
              result |-> lunarToSolarResult(_year, _month, _day)]
  /\ UNCHANGED <<table, cache, seen>>

\* The round trip: the caller passes the lunar date it was just given to
\* lunarToSolar.  The call record keeps the solar date it started from.
ConvertBack ==
  /\ call.op = "solarToLunar"
  /\ IsLunarInfo(call.result)
  /\ call' = [op |-> "convertBack", year |-> call.year, month |-> call.month,
              day |-> call.day,
              via |-> <<call.result.lunarYear, call.result.lunarMonth, call.result.lunarDay>>,
              result |-> lunarToSolarResult(call.result.lunarYear, call.result.lunarMonth,
                                            call.result.lunarDay)]
  /\ UNCHANGED <<table, cache, seen>>

\* A new engine: the class has loaded its table, __init__ has run.
Init ==
  /\ table \in 0..MaxTable
  /\ cache = <<>>
  /\ call = NoCall
  /\ seen = {}

\* The arguments of the calls made on a long-lived engine.
DaySpan == 2
EngineYears == {minYear - 1, minYear, minYear + 1, maxYear, maxYear + 1}
EngineMonths == 1..2
EngineDays == 3..(3 + DaySpan)

Next ==
  \/ \E y \in EngineYears, m \in EngineMonths, d \in EngineDays : SolarToLunar(y, m, d)
  \/ \E y \in EngineYears, m \in EngineMonths, d \in EngineDays : LunarToSolar(y, m, d)
  \/ ConvertBack

Spec == Init /\ [][Next]_vars

-----------------------------------------------------------------------------
(* One conversion on a new engine.  The caller holds a date, converts it   *)
(* with either entry point, and converts a lunar result back.  Every year  *)
(* from minYear - 1 to maxYear + 1 is tried for January and February,        *)
(* the years of DateYears for every month.                                 *)

YearSamples == 10
DateYears ==
  (minYear - 1)..(minYear + 2) \cup (maxYear - 1)..(maxYear + 1)
  \cup {minYear + 1 + 21 * i : i \in 0..YearSamples}

InitDate ==
  /\ table \in 0..MaxTable
  /\ cache = <<>>
  /\ seen = {}
  /\ \E y \in (minYear - 1)..(maxYear + 1), m \in 1..13, d \in 1..31 :
       /\ m <= 2 \/ y \in DateYears
       /\ call = [op |-> "input", year |-> y, month |-> m, day |-> d, result |-> NoResult]

NextDate ==
  \/ call.op = "input" /\ call.month <= 12 /\ SolarToLunar(call.year, call.month, call.day)
  \/ call.op = "input" /\ LunarToSolar(call.year, call.month, call.day)
  \/ ConvertBack

SpecDate == InitDate /\ [][NextDate]_vars

-----------------------------------------------------------------------------
(* __getLunarYearDays on an arbitrary row.                                 *)

BitSamples == 1500
RowBits == {(a * 4099) % 65536 : a \in 0..BitSamples} \cup {65535}

InitDecode ==
  /\ table \in 0..MaxTable
  /\ cache = <<>>
  /\ seen = {}
  /\ \E leap \in 0..12, bits \in RowBits :
       call = [op |-> "row", row |-> <<leap, 1, 21, bits>>, result |-> NoResult]

Decode ==
  /\ call.op = "row"
  /\ call' = [op |-> "decode", row |-> call.row, result |-> decodeYearData(call.row)]
  /\ UNCHANGED <<table, cache, seen>>

NextDecode == Decode

SpecDecode == InitDecode /\ [][NextDecode]_vars

-----------------------------------------------------------------------------
(* __getDaysBetweenZheng and __getLunarDateByBetween on the lunar years of *)
(* DateYears: every date of the year, and every offset -1 .. -yearDays.    *)

OffsetYears == DateYears \cap (minYear..maxYear)

InitOffset ==
  /\ table \in 0..MaxTable
  /\ cache = <<>>
  /\ seen = {}
  /\ \E y \in OffsetYears :
       \/ \E m \in 0..12, d \in 1..30 :
            /\ m < Len(getLunarYearDays(y).monthDays)
            /\ d <= getLunarYearDays(y).monthDays[m + 1]
            /\ call = [op |-> "lunarDate", year |-> y, month |-> m, day |-> d,
                       between |-> 0, result |-> NoResult]
       \/ \E k \in 1..390 :
            /\ k <= getLunarYearDays(y).yearDays
            /\ call = [op |-> "offset", year |-> y, month |-> 0, day |-> 0,
                       between |-> -k, result |-> NoResult]

DaysFromZheng ==
  /\ call.op = "lunarDate"
  /\ call' = [call EXCEPT !.op = "between",
                          !.between = getDaysBetweenZheng(call.year, call.month, call.day)]
  /\ UNCHANGED <<table, cache, seen>>

DateFromOffset ==
  /\ call.op \in {"between", "offset"}
  /\ call' = [call EXCEPT !.op = IF call.op = "between" THEN "dateOfBetween" ELSE "dateOfOffset",
                          !.result = [date |-> getLunarDateByBetween(call.year, call.between)]]
  /\ UNCHANGED <<table, cache, seen>>

NextOffset == DaysFromZheng \/ DateFromOffset

SpecOffset == InitOffset /\ [][NextOffset]_vars

-----------------------------------------------------------------------------
(* What the claims are stated with: a row read directly, without the       *)
(* decoding of __getLunarYearDays.                                         *)

\* The row of a year of the table.
RowOf(year) == lunarInfo[year - minYear + 1]
RowMonths(row) == IF row[1] = 0 THEN 12 ELSE 13
\* The length of month i (0-indexed): bit 15 - i of the row's bits.
RowMonthLen(row, i) == 29 + ((row[4] \div Pow2(15 - i)) % 2)
RECURSIVE RowDaysBefore(_, _)
RowDaysBefore(row, m) == IF m = 0 THEN 0 ELSE RowDaysBefore(row, m - 1) + RowMonthLen(row, m - 1)
RowYearDays(row) == RowDaysBefore(row, RowMonths(row))

InTable(year) == year \in minYear..maxYear
IsCall == call.op \in {"solarToLunar", "lunarToSolar"}
SameDate(r) == IsSolarInfo(r) /\ r.year = call.year /\ r.month = call.month /\ r.day = call.day

\* C1: a valid solar date of a year in minYear+1..maxYear converts to a lunar
\* date, and that lunar date converts back to the date itself.
RoundTrip ==
  (call.op \in {"solarToLunar", "convertBack"}
     /\ call.year \in (minYear + 1)..maxYear
     /\ ValidDate(call.year, call.month, call.day))
  => IF call.op = "solarToLunar" THEN IsLunarInfo(call.result) ELSE SameDate(call.result)

\* C1, where the lunar year is one lunarToSolar accepts: the round trip holds.
RoundTripWhereAccepted ==
  (call.op = "convertBack"
     /\ call.year \in (minYear + 1)..maxYear
     /\ ValidDate(call.year, call.month, call.day)
     /\ call.via[1] > minYear)
  => SameDate(call.result)

\* C2: solarToLunar reports OutOfRange exactly for the years outside
\* minYear+1..maxYear, lunarToSolar exactly for the years outside minYear..maxYear.
ValidationBounds ==
  /\ call.op = "solarToLunar" => (IsError(call.result) <=> call.year \notin (minYear + 1)..maxYear)
  /\ call.op = "lunarToSolar" => (IsError(call.result) <=> call.year \notin minYear..maxYear)

\* C3: for a year outside minYear..maxYear both calls return the error value,
\* code 100 and the message and nothing else, and nothing is cached for it.
OutOfRangeOutsideTable ==
  /\ (IsCall /\ ~InTable(call.year))
       => /\ DOMAIN call.result = {"error", "msg"}
          /\ call.result.error = 100
          /\ call.result.msg = "Year out of range"
  /\ \A y \in DOMAIN cache : InTable(y)

OutOfRangeWitness ==
  /\ call.op = "lunarToSolar"
  /\ call.year = maxYear + 1
  /\ IsError(call.result)

\* C4: a call with an accepted year never fails: it returns a date payload.
OnlyOutOfRangeFails ==
  /\ call.op = "solarToLunar" => IsError(call.result) \/ IsLunarInfo(call.result)
  /\ call.op = "lunarToSolar" => IsError(call.result) \/ IsSolarInfo(call.result)

\* The lunar new year of a year of the table, as an ordinal.
NewYearOf(year) == ToOrdinal(year, RowOf(year)[2], RowOf(year)[3])

\* The claim of C5 for the years from firstYear on.
DayBeforeNewYearFrom(firstYear) ==
  (call.op = "solarToLunar"
     /\ ~IsError(call.result)
     /\ call.year >= firstYear
     /\ ValidDate(call.year, call.month, call.day))
  => LET Y == call.year
         d == ToOrdinal(Y, call.month, call.day)
         r == call.result
     IN /\ d = NewYearOf(Y)
             => IsLunarInfo(r) /\ r.lunarYear = Y /\ r.lunarMonth = 1 /\ r.lunarDay = 1
        /\ d = NewYearOf(Y) - 1
             => /\ IsLunarInfo(r)
                /\ r.lunarYear = Y - 1
                /\ InTable(Y - 1)
                /\ r.lunarMonth = RowMonths(RowOf(Y - 1))
                /\ r.lunarDay = RowMonthLen(RowOf(Y - 1), RowMonths(RowOf(Y - 1)) - 1)

\* C5: for every year Y solarToLunar accepts, the day before Y's lunar new year
\* is the last day of the last month of lunar year Y - 1, from the row of Y - 1,
\* and the new year itself is month 1, day 1 of lunar year Y.
DayBeforeNewYear == DayBeforeNewYearFrom(minYear)

\* C5 for the years minYear+1..maxYear, whose previous year has a row.
DayBeforeNewYearWithRow == DayBeforeNewYearFrom(minYear + 1)

\* C6: a row decodes to 12 months without a leap month and 13 with one, each of
\* 29 or 30 days, month i of 30 days exactly when bit 15 - i is set, and
\* yearDays is their sum.
TableDecoding ==
  call.op = "decode"
  => LET row == call.row
         r   == call.result
         n   == Len(r.monthDays)
     IN /\ n = (IF row[1] = 0 THEN 12 ELSE 13)
        /\ \A i \in 0..(n - 1) :
             /\ r.monthDays[i + 1] \in {29, 30}
             /\ r.monthDays[i + 1] = 30 <=> (row[4] \div Pow2(15 - i)) % 2 = 1
        /\ r.yearDays = SumSeq(r.monthDays, n)
        /\ r.yearDays = RowYearDays(row)

DecodeWitness ==
  /\ call.op = "decode"
  /\ call.row[1] = 12
  /\ Len(call.result.monthDays) = 13
  /\ call.result.monthDays[1] = 29
  /\ call.result.monthDays[13] = 30
  /\ call.row[4] % 8 = 7

\* The term of a solar date: the even-indexed term of its month, on its day.
TermOn(year, month, day) ==
  IF getTerm(year, 2 * (month - 1)) = day THEN solarTerm[2 * (month - 1) + 1] ELSE None

CacheInv ==
  /\ DOMAIN cache = seen
  /\ \A y \in DOMAIN cache : cache[y] = getYearTerm(y)
  /\ Cardinality(DOMAIN cache) <= maxYear - minYear + 1
  /\ (call.op = "solarToLunar" /\ IsLunarInfo(call.result))
       => call.result.term = TermOn(call.year, call.month, call.day)

CacheStep ==
  /\ \A y \in DOMAIN cache : y \in DOMAIN cache' /\ cache'[y] = cache[y]
  /\ (call'.op # "solarToLunar" \/ IsError(call'.result)) => cache' = cache

\* C7: the cache holds an entry exactly for the years of the solarToLunar calls
\* that were not OutOfRange, each entry is that year's term table and is never
\* changed or removed, lunarToSolar and OutOfRange calls leave the cache alone,
\* it holds at most 211 entries, and the term returned depends on the date only.
CacheWriteOnce == []CacheInv /\ [][CacheStep]_vars

CacheWitness ==
  /\ Cardinality(DOMAIN cache) >= 2
  /\ call.op = "solarToLunar"
  /\ call.year \in DOMAIN cache
  /\ call.result.term = "lichun"

\* C8: with p the 0-indexed position of the lunar month and L the leap month of
\* the result's lunar year: the name is the leap marker and numeral p when
\* p = L > 0, numeral p when p > L > 0, numeral p + 1 otherwise; the numeral
\* exists; and lunarLeapMonth is L.
LeapMonthNaming ==
  (call.op = "solarToLunar" /\ IsLunarInfo(call.result))
  => LET r == call.result
         p == r.lunarMonth - 1
         L == yearDataOf(r.lunarYear)[1]
         name == r.lunarMonthName
     IN /\ p \in 0..12
        /\ r.lunarLeapMonth = L
        /\ (L > 0 /\ p = L) => p \in 1..12 /\ name = <<"run", monthCn[p], "yue">>
        /\ (L > 0 /\ p > L) => p \in 1..12 /\ name = <<monthCn[p], "yue">>
        /\ (L = 0 \/ p < L) => p \in 0..11 /\ name = <<monthCn[p + 1], "yue">>

LeapMonthWitness ==
  /\ call.op = "solarToLunar"
  /\ IsLunarInfo(call.result)
  /\ call.result.lunarLeapMonth = call.result.lunarMonth - 1
  /\ call.result.lunarYear = call.year - 1
  /\ call.result.lunarMonthName[1] = "run"

\* The day the February entry of a term table records.
RecordedSpringDay(termList) ==
  LET key == CHOOSE k \in DOMAIN termList : termList[k] = "lichun"
  IN IntOfChar(key[4]) * 10 + IntOfChar(key[5])

IndexIn(x, seq) == CHOOSE i \in 1..Len(seq) : seq[i] = x

\* C9: the stem-branch year is y + 1 from the start-of-spring day recorded in
\* the year's term table on, and y before; that day is the day of term 2;
\* GanZhiYear and zodiac are taken at the year's cycle position and agree on
\* the branch.
SpringCutover ==
  (call.op = "solarToLunar" /\ IsLunarInfo(call.result))
  => LET y      == call.year
         r      == call.result
         spring == RecordedSpringDay(cache[y])
         gz     == IF call.month > 2 \/ (call.month = 2 /\ call.day >= spring)
                   THEN y + 1 ELSE y
         pos    == gz - 1890 + 25
     IN /\ spring = getTerm(y, 2)
        /\ r.GanZhiYear = <<heavenlyStems[(pos % 10) + 1], earthlyBranches[(pos % 12) + 1]>>
        /\ r.zodiac = zodiac[(pos % 12) + 1]
        /\ IndexIn(r.zodiac, zodiac) = IndexIn(r.GanZhiYear[2], earthlyBranches)

SpringWitness ==
  /\ call.op = "solarToLunar"
  /\ IsLunarInfo(call.result)
  /\ call.month = 2
  /\ call.result.term = "lichun"
  /\ call.result.GanZhiYear = cyclical(call.year + 1 - 1890 + 25)

\* C10: the date at the offset of a lunar date is that date, and the date at a
\* negative offset -k is the date at offset yearDays - k.
OffsetInverse ==
  /\ call.op = "dateOfBetween" => call.result.date = <<call.year, call.month, call.day>>
  /\ call.op = "dateOfOffset"
       => LET row == RowOf(call.year)
              r   == call.result.date
          IN /\ r[1] = call.year
             /\ r[2] \in 0..(RowMonths(row) - 1)
             /\ r[3] \in 1..RowMonthLen(row, r[2])
             /\ RowDaysBefore(row, r[2]) + r[3] - 1 = RowYearDays(row) + call.between

OffsetWitness ==
  /\ call.op = "dateOfOffset"
  /\ call.between = -1
  /\ call.result.date[2] = 12
  /\ call.result.date[3] = 30

====
